---- MODULE Spec2Model ----
(***************************************************************************)
(* Model of the combo-box dropdown (ComboBoxDropdown, the class in         *)
(* packages/grid/src/vaadin-grid-selection-mixin.d.ts lines 59-358), of    *)
(* the scroller test helper scrollToIndex, of the height update of the     *)
(* text area (packages/text-area/src/vaadin-text-area.js), of the keyboard *)
(* navigation test of the upload element, and of the pieces of the element *)
(* runtime these rely on.                                                  *)
(*                                                                         *)
(* JavaScript values are modelled by strings: "undefined" is the value     *)
(* undefined, "true"/"false" model a property that can also be undefined.  *)
(* Property changes are synchronous and re-entrant: assigning              *)
(* _overlayOpened inside an observer runs _openedChanged before the        *)
(* assignment returns.  Before ready() property assignments are only       *)
(* recorded; ready() runs the observers once with the recorded values and  *)
(* only then creates the scroller (source lines 163-182).                  *)
(* An uncaught TypeError thrown by the first flush leaves ready()          *)
(* unfinished (phase "faulted"): the element stays in the document with    *)
(* its properties enabled, so later changes run the observers as usual,    *)
(* but lines 167-188 never run and the scroller stays unset.               *)
(***************************************************************************)
EXTENDS Integers, Sequences, FiniteSets, TLC

\* ---------------------------------------------------------------- bounds
MaxItems == 2
MaxEvents == 3
MaxSize == 5
MaxVisible == 3

\* ------------------------------------------------------------- constants
Undef == "undefined"
HostTagName == "vaadin-combo-box"
OpenedEvent == "vaadin-combo-box-dropdown-opened"
ClosedEvent == "vaadin-combo-box-dropdown-closed"
DefaultMaxHeight == "65vh"
\* the TypeErrors of lines 233 and 254
ScrollerFault == "TypeError: this._scroller is undefined"
ItemsFault == "TypeError: this._items is undefined"

ItemVals == {"a", "b"}
\* the value of an _items property that was never assigned
UnsetItems == <<Undef>>
ItemArrays == UNION {[1..n -> ItemVals] : n \in 0..MaxItems}
CustomWidths == {"", "20em"}
CustomMaxHeights == {"", "30vh"}
\* clientWidth values of the position target, in CSS pixels
ClientWidths == {100, 320}
FocusIndexes == (-1)..(MaxItems - 1)
\* no position target, the input of the host, another element
PositionTargets == {Undef, "input", "field"}

B(x) == IF x THEN "true" ELSE "false"

VARIABLES
  phase,            \* "constructed" | "ready" | "faulted"
  opened,           \* "undefined" | "true" | "false"
  loading,          \* BOOLEAN
  _items,           \* UnsetItems or an array
  _focusedIndex,
  focusedItem,
  _overlayOpened,   \* "undefined" | "true" | "false" (bound to overlay.opened)
  __emptyItems,
  __hostTagName,
  positionTarget,   \* "undefined" | "input"
  _scroller,        \* "undefined" | "scroller"
  scroller,         \* properties and style of the scroller element
  overlayStyle,     \* custom properties set on the overlay's style
  hostStyle,        \* custom properties of the host's computed style
  clientWidth,      \* clientWidth of the position target element
  emitted,          \* events the dropdown dispatched in the last operation
  setWidthCalls,    \* width recomputations done by the last operation
  scrolledTo,       \* indexes the scroller was asked to show in the last operation
  overlayLog,       \* <<old, new>> of each change of overlay.opened in the last operation
  op,               \* name of the last operation
  fault,            \* "" or the uncaught exception of the last operation
  lastLifecycle,    \* the last opened or closed event dispatched so far, or "none"
  scrollerEvents,   \* the events the scroller element has dispatched, in order
  forwarded,        \* the events the dropdown re-dispatched for them, in order
  _itemLabelPath,   \* the configured label path
  labelCall,        \* the last getItemLabel call: item, path argument, result
  virtualizer,      \* the scroller's virtualizer: size, visible rows, first row
  scrollCall,       \* the index of the last scrollToIndex call, or -100
  uploadFile,       \* the upload element's one file: its held and error flags
  activeElement,    \* the element that has the keyboard focus
  tabCall,          \* the last repeatTab call: where the focus was, times
  indexCall,        \* the last indexOfLabel call: this._items, label, result
  value,            \* text area: the value, a sequence of characters or unset
  inputElement,     \* text area: the textarea element, once ready() created it
  _inputField,      \* text area: the input field container, once connected
  _oldValueLength,  \* text area: the length recorded by the last height update
  inputStyleHeight, \* text area: style.height of the textarea
  heightUpdate      \* text area: what the last _updateHeight call did

dropVars == <<phase, opened, loading, _items, _focusedIndex, focusedItem,
              _overlayOpened, __emptyItems, __hostTagName, positionTarget,
              _scroller, scroller, overlayStyle, hostStyle, clientWidth,
              emitted, setWidthCalls, scrolledTo, overlayLog, op, fault,
              lastLifecycle>>

relayVars == <<scrollerEvents, forwarded>>
labelVars == <<_itemLabelPath, labelCall>>
scrollVars == <<virtualizer, scrollCall>>
uploadVars == <<uploadFile, activeElement, tabCall>>
indexVars == <<indexCall>>
textVars == <<value, inputElement, _inputField, _oldValueLength, inputStyleHeight,
              heightUpdate>>

\* ------------------------------------------------------ style properties
WidthProp(tag) == "--" \o tag \o "-overlay-width"
DefaultWidthProp(tag) == "--_" \o tag \o "-overlay-default-width"
MaxHeightProp(tag) == "--" \o tag \o "-overlay-max-height"

OverlayStyleProps ==
  {WidthProp(t) : t \in {Undef, HostTagName}} \cup
  {DefaultWidthProp(t) : t \in {Undef, HostTagName}}

\* CSSStyleDeclaration.getPropertyValue: '' for a property that is not set
GetPropertyValue(style, name) ==
  IF name \in DOMAIN style THEN style[name] ELSE ""

HasItems(items) == items # UnsetItems /\ Len(items) > 0

\* ------------------------------------------------- the handlers' state
Cur ==
  [opened |-> opened, loading |-> loading, _items |-> _items,
   _focusedIndex |-> _focusedIndex, focusedItem |-> focusedItem,
   _overlayOpened |-> _overlayOpened, __emptyItems |-> __emptyItems,
   __hostTagName |-> __hostTagName, positionTarget |-> positionTarget,
   _scroller |-> _scroller, scroller |-> scroller,
   overlayStyle |-> overlayStyle, fault |-> "",
   emitted |-> <<>>, setWidthCalls |-> 0, scrolledTo |-> <<>>,
   overlayLog |-> <<>>]

\* an exception thrown by a handler skips everything that would follow it
Then(s, F(_)) == IF s.fault # "" THEN s ELSE F(s)

\* variant: an override that was applied is never removed
_setOverlayWidth_keepOverride(s) ==
  IF s.positionTarget = Undef
    THEN s
    ELSE
      LET inputWidth == ToString(clientWidth) \o "px"
          propPrefix == s.__hostTagName \o "-overlay"
          customWidth == GetPropertyValue(hostStyle, "--" \o propPrefix \o "-width")
          st1 == [s.overlayStyle EXCEPT !["--_" \o propPrefix \o "-default-width"] = inputWidth]
          st2 == IF customWidth = ""
                   THEN st1
                   ELSE [st1 EXCEPT !["--" \o propPrefix \o "-width"] = customWidth]
      IN [s EXCEPT !.overlayStyle = st2, !.setWidthCalls = @ + 1]

_setOverlayWidth(s) ==
  IF s.positionTarget = Undef
    THEN s
    ELSE
      LET inputWidth == ToString(clientWidth) \o "px"
          propPrefix == s.__hostTagName \o "-overlay"
          customWidth == GetPropertyValue(hostStyle, "--" \o propPrefix \o "-width")
          st1 == [s.overlayStyle EXCEPT !["--_" \o propPrefix \o "-default-width"] = inputWidth]
          st2 == IF customWidth = ""
                   THEN [st1 EXCEPT !["--" \o propPrefix \o "-width"] = ""]
                   ELSE [st1 EXCEPT !["--" \o propPrefix \o "-width"] = customWidth]
      IN [s EXCEPT !.overlayStyle = st2, !.setWidthCalls = @ + 1]

\* variant: the closed event ignores the empty-items flag
_openedChanged_ignoreEmpty(s, newOpened, wasOpened) ==
  IF newOpened = "true"
    THEN
      LET s1 == _setOverlayWidth(s)
          custom == GetPropertyValue(hostStyle, "--" \o s.__hostTagName \o "-overlay-max-height")
      IN IF s1._scroller = Undef
           THEN [s1 EXCEPT !.fault = ScrollerFault]
           ELSE [s1 EXCEPT
                   !.scroller.maxHeight = IF custom = "" THEN DefaultMaxHeight ELSE custom,
                   !.emitted = Append(@, OpenedEvent)]
    ELSE IF wasOpened = "true"
      THEN [s EXCEPT !.emitted = Append(@, ClosedEvent)]
      ELSE s

_openedChanged(s, newOpened, wasOpened) ==
  IF newOpened = "true"
    THEN
      LET s1 == _setOverlayWidth(s)
          custom == GetPropertyValue(hostStyle, "--" \o s.__hostTagName \o "-overlay-max-height")
      IN IF s1._scroller = Undef
           THEN [s1 EXCEPT !.fault = ScrollerFault]
           ELSE [s1 EXCEPT
                   !.scroller.maxHeight = IF custom = "" THEN DefaultMaxHeight ELSE custom,
                   !.emitted = Append(@, OpenedEvent)]
    ELSE IF wasOpened = "true" /\ ~s.__emptyItems
      THEN [s EXCEPT !.emitted = Append(@, ClosedEvent)]
      ELSE s

\* assignment to the observed property _overlayOpened
Set_overlayOpened(s, v) ==
  IF s._overlayOpened = v
    THEN s
    ELSE _openedChanged([s EXCEPT !._overlayOpened = v,
                                  !.overlayLog = Append(@, <<s._overlayOpened, v>>)],
                        v, s._overlayOpened)

\* line 249
ResetEmptyItems(s) == [s EXCEPT !.__emptyItems = FALSE]

\* variant: loading does not keep the overlay open
_openedOrItemsChanged_ignoreLoading(s) ==
  LET hasItems == HasItems(s._items)
      s1 == IF ~hasItems THEN [s EXCEPT !.__emptyItems = TRUE] ELSE s
      s2 == Set_overlayOpened(s1, B(s.opened = "true" /\ hasItems))
  IN Then(s2, ResetEmptyItems)

_openedOrItemsChanged(s) ==
  LET hasItems == HasItems(s._items)
      s1 == IF ~hasItems THEN [s EXCEPT !.__emptyItems = TRUE] ELSE s
      s2 == Set_overlayOpened(s1, B(s.opened = "true" /\ (s.loading \/ hasItems)))
  IN Then(s2, ResetEmptyItems)

_getFocusedItem(s) ==
  IF s._focusedIndex >= 0
    THEN IF s._items = UnsetItems
           THEN [s EXCEPT !.fault = ItemsFault]
           ELSE [s EXCEPT !.focusedItem =
                   IF s._focusedIndex + 1 \in DOMAIN s._items
                     THEN s._items[s._focusedIndex + 1] ELSE Undef]
    ELSE [s EXCEPT !.focusedItem = Undef]

\* variant: the items are passed on whether opened or not
__updateScroller_allItems(s) ==
  IF s._scroller # Undef
    THEN [s EXCEPT
            !.scroller.items = s._items,
            !.scroller.opened = s.opened,
            !.scroller.loading = s.loading,
            !.scroller.focusedIndex = s._focusedIndex]
    ELSE s

__updateScroller(s) ==
  IF s._scroller # Undef
    THEN [s EXCEPT
            !.scroller.items = IF s.opened = "true" THEN s._items ELSE <<>>,
            !.scroller.opened = s.opened,
            !.scroller.loading = s.loading,
            !.scroller.focusedIndex = s._focusedIndex]
    ELSE s

_isOverlayHidden == ~loading /\ ~HasItems(_items)

_positionTargetChanged(s) ==
  IF s.positionTarget # Undef THEN _setOverlayWidth(s) ELSE s

_scrollIntoView(s, index) ==
  IF s._scroller = Undef
    THEN s
    ELSE [s EXCEPT !.scrolledTo = Append(@, index)]

adjustScrollPosition(s) ==
  IF s.opened = "true" /\ s._items # UnsetItems
    THEN _scrollIntoView(s, s._focusedIndex)
    ELSE s

\* variant: the width is recomputed whether opened or not
notifyResize_whenClosed(s) ==
  IF s.positionTarget # Undef
    THEN _setOverlayWidth(s)
    ELSE s

notifyResize(s) ==
  IF s.positionTarget # Undef /\ s.opened = "true"
    THEN _setOverlayWidth(s)
    ELSE s

disconnectedCallback(s) == Set_overlayOpened(s, "false")

\* the scroller element created by the overlay renderer
NewScroller ==
  [items |-> UnsetItems, opened |-> Undef, loading |-> FALSE,
   focusedIndex |-> -1, maxHeight |-> "", listeners |-> {}]

\* ready(): the first property flush, then lines 167-188
InitialFlush(s) ==
  LET s1 == _getFocusedItem(s)
      s2 == Then(s1, _positionTargetChanged)
      s3 == Then(s2, _openedOrItemsChanged)
  IN Then(s3, __updateScroller)

\* the event types of lines 187-188
ForwardedTypes == {"selection-changed", "index-requested"}

AddListeners(s) == [s EXCEPT !.scroller.listeners = ForwardedTypes]

CreateScroller(s) ==
  AddListeners(__updateScroller([s EXCEPT !.__hostTagName = HostTagName,
                                          !._scroller = "scroller",
                                          !.scroller = NewScroller]))

\* variant: the detail is not copied
_forwardScrollerEvent_noDetail(event) == [type |-> event.type, detail |-> Undef]

_forwardScrollerEvent(event) == [type |-> event.type, detail |-> event.detail]

ready(s) == Then(InitialFlush(s), CreateScroller)

\* the last opened or closed event of a sequence of dispatched events
RECURSIVE LastLifecycle(_, _)
LastLifecycle(before, events) ==
  IF events = <<>> THEN before
  ELSE IF events[Len(events)] \in {OpenedEvent, ClosedEvent}
    THEN events[Len(events)]
    ELSE LastLifecycle(before, SubSeq(events, 1, Len(events) - 1))

\* ------------------------------------------------------------- actions
Commit(s, name) ==
  /\ opened' = s.opened
  /\ loading' = s.loading
  /\ _items' = s._items
  /\ _focusedIndex' = s._focusedIndex
  /\ focusedItem' = s.focusedItem
  /\ _overlayOpened' = s._overlayOpened
  /\ __emptyItems' = s.__emptyItems
  /\ __hostTagName' = s.__hostTagName
  /\ positionTarget' = s.positionTarget
  /\ _scroller' = s._scroller
  /\ scroller' = s.scroller
  /\ overlayStyle' = s.overlayStyle
  /\ emitted' = s.emitted
  /\ setWidthCalls' = s.setWidthCalls
  /\ scrolledTo' = s.scrolledTo
  /\ op' = name
  /\ overlayLog' = s.overlayLog
  /\ fault' = s.fault
  /\ lastLifecycle' = LastLifecycle(lastLifecycle, s.emitted)
  /\ phase' = IF s.fault # "" THEN "faulted"
              ELSE IF s._scroller # Undef THEN "ready" ELSE phase
  /\ UNCHANGED <<hostStyle, clientWidth>>
  /\ UNCHANGED <<relayVars, labelVars, scrollVars, uploadVars, indexVars, textVars>>

\* the element exists; its operations stay available after a fault
Live == phase \in {"constructed", "ready", "faulted"}

\* the first property flush has run: property changes take effect at once
Flushed == phase \in {"ready", "faulted"}

\* observers of opened, _items and loading, in the order of lines 158-159
StateObservers(s) == Then(_openedOrItemsChanged(s), __updateScroller)

\* observers of _focusedIndex: the computed focusedItem, then line 159
FocusObservers(s) == Then(_getFocusedItem(s), __updateScroller)

Effects(s, F(_)) == IF Flushed THEN F(s) ELSE s

SetOpened(v) ==
  /\ Live /\ v # opened
  /\ Commit(Effects([Cur EXCEPT !.opened = v], StateObservers), "opened")

SetLoading(v) ==
  /\ Live /\ v # loading
  /\ Commit(Effects([Cur EXCEPT !.loading = v], StateObservers), "loading")

SetItems(v) ==
  /\ Live
  /\ Commit(Effects([Cur EXCEPT !._items = v], StateObservers), "_items")

\* the host derives the index from the items it has supplied: it is
\* non-negative only while an item collection is set
SetFocusedIndex(v) ==
  /\ Live /\ v # _focusedIndex
  /\ (v >= 0 => _items # UnsetItems)
  /\ Commit(Effects([Cur EXCEPT !._focusedIndex = v], FocusObservers), "_focusedIndex")

SetPositionTarget(v) ==
  /\ Live /\ v # positionTarget
  /\ Commit(Effects([Cur EXCEPT !.positionTarget = v], _positionTargetChanged), "positionTarget")

Ready ==
  /\ phase = "constructed"
  /\ Commit(ready(Cur), "ready")

\* the overlay closes itself; the two-way binding writes _overlayOpened
OverlayClose ==
  /\ Flushed /\ _overlayOpened = "true"
  /\ Commit(Set_overlayOpened(Cur, "false"), "overlayClose")

Disconnect ==
  /\ Flushed
  /\ Commit(disconnectedCallback(Cur), "disconnectedCallback")

\* resize notifications reach attached elements only
NotifyResize ==
  /\ Flushed
  /\ Commit(notifyResize(Cur), "notifyResize")

\* the scrolling methods can be called on the element at any time
ScrollIntoView(index) ==
  /\ Live
  /\ Commit(_scrollIntoView(Cur, index), "_scrollIntoView")

AdjustScrollPosition ==
  /\ Live
  /\ Commit(adjustScrollPosition(Cur), "adjustScrollPosition")

\* the environment: style sheets and layout
SetHostStyle(name, v) ==
  /\ Live /\ hostStyle[name] # v
  /\ hostStyle' = [hostStyle EXCEPT ![name] = v]
  /\ op' = "hostStyle" /\ emitted' = <<>> /\ setWidthCalls' = 0 /\ scrolledTo' = <<>>
  /\ overlayLog' = <<>> /\ fault' = fault /\ UNCHANGED lastLifecycle
  /\ UNCHANGED <<relayVars, labelVars, scrollVars, uploadVars, indexVars, textVars>>
  /\ UNCHANGED <<phase, opened, loading, _items, _focusedIndex, focusedItem,
                 _overlayOpened, __emptyItems, __hostTagName, positionTarget,
                 _scroller, scroller, overlayStyle, clientWidth>>

ResizeTarget(w) ==
  /\ Live /\ w # clientWidth
  /\ clientWidth' = w
  /\ op' = "layout" /\ emitted' = <<>> /\ setWidthCalls' = 0 /\ scrolledTo' = <<>>
  /\ overlayLog' = <<>> /\ fault' = fault /\ UNCHANGED lastLifecycle
  /\ UNCHANGED <<relayVars, labelVars, scrollVars, uploadVars, indexVars, textVars>>
  /\ UNCHANGED <<phase, opened, loading, _items, _focusedIndex, focusedItem,
                 _overlayOpened, __emptyItems, __hostTagName, positionTarget,
                 _scroller, scroller, overlayStyle, hostStyle>>

\* the scroller dispatches an event; the listeners of lines 187-188 run
ScrollerEventTypes == ForwardedTypes \cup {"scroll"}
Details == {"detail-1", "detail-2"}

ScrollerDispatch(type, detail) ==
  /\ phase = "ready" /\ _scroller # Undef
  /\ Len(scrollerEvents) < MaxEvents
  /\ LET event == [type |-> type, detail |-> detail]
         out == IF type \in scroller.listeners
                  THEN <<_forwardScrollerEvent(event)>> ELSE <<>>
     IN /\ scrollerEvents' = Append(scrollerEvents, event)
        /\ forwarded' = forwarded \o out
        /\ emitted' = [i \in DOMAIN out |-> out[i].type]
  /\ op' = "scrollerEvent"
  /\ setWidthCalls' = 0 /\ scrolledTo' = <<>> /\ overlayLog' = <<>>
  /\ UNCHANGED <<phase, opened, loading, _items, _focusedIndex, focusedItem,
                 _overlayOpened, __emptyItems, __hostTagName, positionTarget,
                 _scroller, scroller, overlayStyle, hostStyle, clientWidth, fault,
                 lastLifecycle>>
  /\ UNCHANGED <<labelVars, scrollVars, uploadVars, indexVars, textVars>>

\* ----------------------------------------------------------- item labels
\* JavaScript values: a type tag and the string the value converts to
JsUndefined == [t |-> "undefined", v |-> "undefined"]
JsNull == [t |-> "null", v |-> "null"]
Num(str) == [t |-> "number", v |-> str]
Str(str) == [t |-> "string", v |-> str]
Bool(str) == [t |-> "boolean", v |-> str]
Obj(id) == [t |-> "object", v |-> id]

\* the own properties of the objects used as items
ObjectProps ==
  [id \in {"apple", "pear", "nulled", "zero", "blank"} |->
     CASE id = "apple" -> [label |-> Str("Apple"), name |-> Str("Fruit")]
       [] id = "pear" -> [name |-> Str("Pear")]
       [] id = "nulled" -> [label |-> JsNull]
       [] id = "zero" -> [label |-> Num("0")]
       [] id = "blank" -> [label |-> Str("")]]

LabelItems ==
  {JsUndefined, JsNull, Num("0"), Num("7"), Str(""), Str("kiwi"),
   Bool("false"), Bool("true")} \cup {Obj(id) : id \in DOMAIN ObjectProps}
PathArgs == {JsUndefined, Str(""), Str("label"), Str("name")}
ConfiguredPaths == {Str("label"), Str("name"), Str("")}

\* ToBoolean
Truthy(x) ==
  CASE x.t \in {"undefined", "null"} -> FALSE
    [] x.t = "number" -> x.v \notin {"0", "NaN"}
    [] x.t = "string" -> x.v # ""
    [] x.t = "boolean" -> x.v = "true"
    [] OTHER -> TRUE

\* x.toString() of a number, string, boolean or plain object
ToStringJS(x) == IF x.t = "object" THEN "[object Object]" ELSE x.v

\* this.get(path, root) for a path of one segment
Get(path, root) ==
  IF root.t = "object" /\ path \in DOMAIN ObjectProps[root.v]
    THEN ObjectProps[root.v][path]
    ELSE JsUndefined

getItemLabel(item, itemLabelPath) ==
  LET path == IF Truthy(itemLabelPath) THEN itemLabelPath ELSE _itemLabelPath
      label == IF Truthy(item) /\ Truthy(path) THEN Get(path.v, item) ELSE JsUndefined
  IN IF label = JsUndefined \/ label = JsNull
       THEN IF Truthy(item) THEN Str(ToStringJS(item)) ELSE Str("")
       ELSE label

\* an item collection of JavaScript values, and one that was never set
Arr(seq) == [t |-> "array", v |-> seq]
NoArr == [t |-> "undefined", v |-> <<>>]
NoIndexCall == [items |-> NoArr, label |-> JsUndefined, result |-> -100]

NoLabelCall == [item |-> JsUndefined, path |-> JsUndefined, result |-> [t |-> "none", v |-> ""]]

SetItemLabelPath(v) ==
  /\ v # _itemLabelPath
  /\ _itemLabelPath' = v
  /\ labelCall' = NoLabelCall
  /\ indexCall' = NoIndexCall
  /\ UNCHANGED <<dropVars, relayVars, scrollVars, uploadVars, textVars>>

GetItemLabel(item, path) ==
  /\ labelCall' = [item |-> item, path |-> path, result |-> getItemLabel(item, path)]
  /\ UNCHANGED <<_itemLabelPath, dropVars, relayVars, scrollVars, uploadVars, indexVars, textVars>>

\* ----------------------------------------------------------- indexOfLabel
IndexItems == {Obj("apple"), Obj("pear"), Obj("zero"), Str("kiwi"), Num("7")}
IndexItemArrays == {NoArr} \cup {Arr(seq) : seq \in UNION {[1..n -> IndexItems] : n \in 0..MaxItems}}
IndexLabels ==
  {JsUndefined, JsNull, Str(""), Str("apple"), Str("APPLE"), Str("Pear"), Str("KIWI"),
   Str("7"), Str("0"), Num("0"), Num("7"), Str("[object object]")}

\* String.prototype.toLowerCase on the strings that occur
ToLowerCase(str) ==
  CASE str \in {"Apple", "APPLE"} -> "apple"
    [] str = "Pear" -> "pear"
    [] str = "KIWI" -> "kiwi"
    [] str = "Fruit" -> "fruit"
    [] str = "[object Object]" -> "[object object]"
    [] OTHER -> str

RECURSIVE indexOfLabel_loop(_, _, _)
\* lines 264-268, from index i on
indexOfLabel_loop(arr, label, i) ==
  IF i >= Len(arr) THEN -1
  ELSE IF ToLowerCase(ToStringJS(getItemLabel(arr[i + 1], JsUndefined)))
            = ToLowerCase(ToStringJS(label))
         THEN i
         ELSE indexOfLabel_loop(arr, label, i + 1)

indexOfLabel(items, label) ==
  IF Truthy(items) /\ Truthy(label)
    THEN indexOfLabel_loop(items.v, label, 0)
    ELSE -1

IndexOfLabel(items, label) ==
  /\ indexCall' = [items |-> items, label |-> label, result |-> indexOfLabel(items, label)]
  /\ labelCall' = NoLabelCall
  /\ UNCHANGED <<_itemLabelPath, dropVars, relayVars, scrollVars, uploadVars, textVars>>

\* ------------------------------------------------------- scrollToIndex
Min(a, b) == IF a < b THEN a ELSE b
Max(a, b) == IF a > b THEN a ELSE b
Clamp(x, lo, hi) == Min(Max(x, lo), hi)

\* the virtualizer's scrollToIndex: nothing to scroll in an empty list,
\* otherwise the clamped index becomes the first visible row unless the
\* list ends before the viewport is filled
virtualizer_scrollToIndex(v, index) ==
  IF v.size = 0
    THEN v
    ELSE LET target == Clamp(index, 0, v.size - 1)
         IN [v EXCEPT !.firstVisibleIndex =
               Min(target, Max(0, v.size - v.visibleCount))]

\* variant: the helper passes the following index
scrollToIndex_next(v, index) == virtualizer_scrollToIndex(v, index + 1)

\* the helper: v is comboBox.$.dropdown._scroller.__virtualizer
scrollToIndex(v, index) == virtualizer_scrollToIndex(v, index)

\* the rows in the viewport
VisibleRange(v) ==
  v.firstVisibleIndex .. (Min(v.firstVisibleIndex + v.visibleCount, v.size) - 1)

NoScrollCall == -100
ScrollIndexes == ((-2)..(MaxSize + 2)) \cup {95, 99, 100, 120}

ScrollToIndex(index) ==
  /\ virtualizer' = scrollToIndex(virtualizer, index)
  /\ scrollCall' = index
  /\ UNCHANGED <<dropVars, relayVars, labelVars, uploadVars, indexVars, textVars>>

\* ------------------------------------------- upload: keyboard navigation
MaxTabs == 5

\* the focusable parts of the upload element and of its file element, in
\* document order; "outside" is the button of the test page and whatever
\* the browser focuses after the last element of the page
TabOrder == <<"upload-button", "file", "start-button", "retry-button", "clear-button">>
Outside == "outside"

\* the start button is shown for a held file, the retry button for a file
\* with an error; a hidden button takes no focus
Focusable(file, part) ==
  CASE part = "start-button" -> file.held
    [] part = "retry-button" -> file.error # ""
    [] OTHER -> TRUE

PositionOf(stops, el) ==
  IF \E i \in DOMAIN stops : stops[i] = el
    THEN CHOOSE i \in DOMAIN stops : stops[i] = el
    ELSE 0

\* sendKeys({ press: 'Tab' }): the focus moves to the next focusable element
\* in document order and leaves the upload element after the last one
sendKeysTab(file, focus) ==
  LET after == {i \in DOMAIN TabOrder :
                  i > PositionOf(TabOrder, focus) /\ Focusable(file, TabOrder[i])}
  IN IF after = {}
       THEN Outside
       ELSE TabOrder[CHOOSE i \in after : \A j \in after : i <= j]

RECURSIVE repeatTab_oneMore(_, _, _)
\* variant: the loop runs once more
repeatTab_oneMore(file, focus, times) ==
  IF times < 0 THEN focus
  ELSE repeatTab_oneMore(file, sendKeysTab(file, focus), times - 1)

RECURSIVE repeatTab(_, _, _)
repeatTab(file, focus, times) ==
  IF times <= 0 THEN focus
  ELSE repeatTab(file, sendKeysTab(file, focus), times - 1)

NoTabCall == [from |-> Outside, times |-> 0]

InitUpload ==
  /\ uploadFile = [held |-> FALSE, error |-> ""]
  /\ activeElement = Outside
  /\ tabCall = NoTabCall

\* lines 60-63: the flags of the file change and the file element re-renders
NotifyFileChanges(held, error) ==
  /\ activeElement = Outside
  /\ uploadFile' = [held |-> held, error |-> error]
  /\ tabCall' = NoTabCall
  /\ UNCHANGED activeElement
  /\ UNCHANGED <<dropVars, relayVars, labelVars, scrollVars, indexVars, textVars>>

RepeatTab(times) ==
  /\ activeElement' = repeatTab(uploadFile, activeElement, times)
  /\ tabCall' = [from |-> activeElement, times |-> times]
  /\ UNCHANGED uploadFile
  /\ UNCHANGED <<dropVars, relayVars, labelVars, scrollVars, indexVars, textVars>>

\* line 40: the button outside the upload element takes the focus
FocusOutside ==
  /\ activeElement # Outside
  /\ activeElement' = Outside
  /\ tabCall' = NoTabCall
  /\ UNCHANGED uploadFile
  /\ UNCHANGED <<dropVars, relayVars, labelVars, scrollVars, indexVars, textVars>>

\* ------------------------------------------------- text area: _updateHeight
MaxLen == 4
\* layout: the height of a row of text and of an empty textarea, in px
RowHeight == 20
DefaultHeight == 40

Chars == {"a", "b"}
\* the value of a text area whose value was never set
UnsetValue == <<Undef>>
TextValues == {UnsetValue} \cup UNION {[1..n -> Chars] : n \in 0..MaxLen}
\* _oldValueLength before any update recorded one: undefined >= n is false
NoLength == -1

\* line 258
ValueLength(v) == IF v = UnsetValue \/ v = <<>> THEN 0 ELSE Len(v)

\* layout: every character takes a row; an element is at least as high as
\* its content box
\* style.height: not set, 'auto', or a length in px
NoHeight == [unit |-> "", px |-> 0]
AutoHeight == [unit |-> "auto", px |-> 0]
Px(n) == [unit |-> "px", px |-> n]

ClientHeight(height) == IF height.unit = "px" THEN height.px ELSE DefaultHeight
ScrollHeight(v, height) == Max(RowHeight * ValueLength(v), ClientHeight(height))

NoUpdate == [ran |-> FALSE, cleared |-> FALSE, previous |-> NoLength, length |-> 0]

\* the text area's state as a record, for the handlers
CurText ==
  [value |-> value, inputElement |-> inputElement, _inputField |-> _inputField,
   _oldValueLength |-> _oldValueLength, inputStyleHeight |-> inputStyleHeight,
   heightUpdate |-> NoUpdate]

_updateHeight(t) ==
  IF t.inputElement = Undef \/ t._inputField = Undef
    THEN t
    ELSE
      LET valueLength == ValueLength(t.value)
          clear == t._oldValueLength >= valueLength
          h1 == IF clear THEN AutoHeight ELSE t.inputStyleHeight
          inputHeight == ScrollHeight(t.value, h1)
          h2 == IF inputHeight > ClientHeight(h1) THEN Px(inputHeight) ELSE h1
      IN [t EXCEPT !._oldValueLength = valueLength,
                   !.inputStyleHeight = h2,
                   !.heightUpdate = [ran |-> TRUE, cleared |-> clear,
                                     previous |-> t._oldValueLength,
                                     length |-> valueLength]]

_valueChanged(t) == _updateHeight(t)

CommitText(t) ==
  /\ value' = t.value
  /\ inputElement' = t.inputElement
  /\ _inputField' = t._inputField
  /\ _oldValueLength' = t._oldValueLength
  /\ inputStyleHeight' = t.inputStyleHeight
  /\ heightUpdate' = t.heightUpdate
  /\ UNCHANGED <<dropVars, relayVars, labelVars, scrollVars, uploadVars, indexVars>>

InitText ==
  /\ value = UnsetValue
  /\ inputElement = Undef
  /\ _inputField = Undef
  /\ _oldValueLength = NoLength
  /\ inputStyleHeight = NoHeight
  /\ heightUpdate = NoUpdate

\* the value property changes; before ready() the change is only recorded
TextSetValue(v) ==
  /\ v # value
  /\ CommitText(IF inputElement # Undef
                  THEN _valueChanged([CurText EXCEPT !.value = v])
                  ELSE [CurText EXCEPT !.value = v])

\* lines 204-225: the element is connected; the first time ready() runs the
\* value observer (the textarea does not exist yet) and creates the textarea
TextConnected ==
  LET t1 == IF inputElement = Undef
              THEN [_valueChanged(CurText) EXCEPT !.inputElement = "textarea"]
              ELSE CurText
  IN CommitText(_updateHeight([t1 EXCEPT !._inputField = "input-field"]))

\* lines 228-232: the appear animation of the text area ended
TextAnimationEnd ==
  /\ inputElement # Undef
  /\ CommitText(_updateHeight(CurText))

vars == <<dropVars, relayVars, labelVars, scrollVars, uploadVars, indexVars, textVars>>

InitDropdown ==
  /\ phase = "constructed"
  /\ opened = Undef
  /\ loading = FALSE
  /\ _items = UnsetItems
  /\ _focusedIndex = -1
  /\ focusedItem = Undef
  /\ _overlayOpened = Undef
  /\ __emptyItems = FALSE
  /\ __hostTagName = Undef
  /\ positionTarget = Undef
  /\ _scroller = Undef
  /\ scroller = NewScroller
  /\ overlayStyle = [p \in OverlayStyleProps |-> ""]
  /\ hostStyle = [p \in {WidthProp(HostTagName), MaxHeightProp(HostTagName)} |-> ""]
  /\ clientWidth = 100
  /\ emitted = <<>>
  /\ setWidthCalls = 0
  /\ scrolledTo = <<>>
  /\ overlayLog = <<>>
  /\ op = "constructor"
  /\ fault = ""
  /\ lastLifecycle = "none"
  /\ scrollerEvents = <<>>
  /\ forwarded = <<>>
  /\ _itemLabelPath = Str("label")
  /\ labelCall = NoLabelCall
  /\ InitUpload
  /\ indexCall = NoIndexCall
  /\ InitText

Init ==
  /\ InitDropdown
  /\ virtualizer = [size |-> 0, visibleCount |-> 1, firstVisibleIndex |-> 0]
  /\ scrollCall = NoScrollCall

Next ==
  \/ \E v \in {"true", "false"} : SetOpened(v)
  \/ \E v \in BOOLEAN : SetLoading(v)
  \/ \E v \in ItemArrays : SetItems(v)
  \/ \E v \in FocusIndexes : SetFocusedIndex(v)
  \/ \E v \in {Undef, "input"} : SetPositionTarget(v)
  \/ Ready
  \/ OverlayClose
  \/ Disconnect
  \/ NotifyResize
  \/ \E i \in FocusIndexes : ScrollIntoView(i)
  \/ AdjustScrollPosition

\* the dropdown's operations under a fixed style sheet and layout
Spec == Init /\ [][Next]_vars

\* width synchronisation: the style sheet and the layout change, and so does
\* everything that recomputes the overlay width
NextWidth ==
  \/ \E v \in {"true", "false"} : SetOpened(v)
  \/ \E v \in BOOLEAN : SetLoading(v)
  \/ \E v \in PositionTargets : SetPositionTarget(v)
  \/ Ready
  \/ OverlayClose
  \/ NotifyResize
  \/ \E v \in CustomWidths : SetHostStyle(WidthProp(HostTagName), v)
  \/ \E v \in CustomMaxHeights : SetHostStyle(MaxHeightProp(HostTagName), v)
  \/ \E w \in ClientWidths : ResizeTarget(w)

SpecWidth == Init /\ [][NextWidth]_vars

\* event forwarding: the scroller dispatches events to the ready dropdown
NextRelay ==
  \/ Ready
  \/ \E t \in ScrollerEventTypes, d \in Details : ScrollerDispatch(t, d)

SpecRelay == Init /\ [][NextRelay]_vars

\* item labels: any item, any path argument, any configured path
NextLabel ==
  \/ \E v \in ConfiguredPaths : SetItemLabelPath(v)
  \/ \E item \in LabelItems, path \in PathArgs : GetItemLabel(item, path)

SpecLabel == Init /\ [][NextLabel]_vars

\* the text area: value changes, (re)connections and animation ends
NextText ==
  \/ \E v \in TextValues : TextSetValue(v)
  \/ TextConnected
  \/ TextAnimationEnd

SpecText == Init /\ [][NextText]_vars

\* indexOfLabel: any small item collection, any label, any configured path
NextIndex ==
  \/ \E v \in ConfiguredPaths : SetItemLabelPath(v)
  \/ \E items \in IndexItemArrays, label \in IndexLabels : IndexOfLabel(items, label)

SpecIndex == Init /\ [][NextIndex]_vars

\* scrollToIndex on lists of every small size, and on a list of 100 items
\* with 10 visible rows
InitScroll ==
  /\ InitDropdown
  /\ \E n \in (0..MaxSize) \cup {100}, k \in (1..MaxVisible) \cup {10} :
       virtualizer = [size |-> n, visibleCount |-> k, firstVisibleIndex |-> 0]
  /\ scrollCall = NoScrollCall

NextScroll == \E i \in ScrollIndexes : ScrollToIndex(i)

SpecScroll == InitScroll /\ [][NextScroll]_vars

\* keyboard navigation in the upload element with one file
NextUpload ==
  \/ \E held \in BOOLEAN, error \in {"", "Error", "Forbidden"} : NotifyFileChanges(held, error)
  \/ \E times \in 1..MaxTabs : RepeatTab(times)
  \/ FocusOutside

SpecUpload == Init /\ [][NextUpload]_vars

\* ------------------------------------------------------------ vocabulary
OverlayOpen == _overlayOpened = "true"
OverlayVisible == OverlayOpen /\ ~_isOverlayHidden
ShouldBeOpen == opened = "true" /\ (loading \/ HasItems(_items))
Count(seq, e) == Cardinality({i \in DOMAIN seq : seq[i] = e})
Opens(log) == Cardinality({i \in DOMAIN log : log[i][2] = "true"})
Closes(log) == Cardinality({i \in DOMAIN log : log[i] = <<"true", "false">>})

TypeOK ==
  /\ phase \in {"constructed", "ready", "faulted"}
  /\ fault # "" => phase = "faulted"
  /\ (phase = "ready") <=> (_scroller # Undef)

\* ---------------------------------------------------------------- claims

\* C1 as stated: once the dropdown is ready the overlay is visible iff
\* opened and (loading or the item collection is non-empty), also after an
\* overlay-initiated close or a disconnect.
C1_VisibleIffShouldBeOpen ==
  phase = "ready" => (OverlayVisible <=> ShouldBeOpen)

\* C1 amended: the overlay is visible only if opened and (loading or items
\* non-empty); the converse holds right after ready() and after every change
\* of opened, loading or the item collection of the initialised dropdown,
\* but not after an overlay-initiated close or a disconnect.
C1_VisibleOnlyIfAndAfterChange ==
  /\ [](OverlayVisible => ShouldBeOpen)
  /\ [][(op' \in {"ready", "opened", "loading", "_items"} /\ phase' # "constructed")
          => (OverlayVisible' <=> ShouldBeOpen')]_vars

C1_Witness ==
  /\ phase = "ready" /\ op = "loading"
  /\ OverlayVisible /\ ~HasItems(_items)

\* C2 read literally: with opened true and items non-empty, setting opened to
\* false emits exactly one closed event, also when the overlay had closed
\* itself or the dropdown was disconnected before.
C2_OneClosedWheneverItems ==
  [][(phase = "ready" /\ opened = "true" /\ HasItems(_items)
        /\ op' = "opened" /\ opened' = "false")
       => Count(emitted', ClosedEvent) = 1]_vars

\* C2 as stated, for an overlay that is open: with opened true, the item
\* collection non-empty and the overlay open, setting opened to false closes
\* the overlay and emits exactly one closed event, whatever loading is.
C2_OneClosedWhenOverlayOpen ==
  [][(OverlayOpen /\ opened = "true" /\ HasItems(_items)
        /\ op' = "opened" /\ opened' = "false")
       => (Count(emitted', ClosedEvent) = 1 /\ ~OverlayOpen')]_vars

\* C3: setting opened from true to false while the item collection is empty
\* or unset emits no closed event, also when the overlay was open because
\* loading was true.
C3_NoClosedWhenItemsEmpty ==
  [][(opened = "true" /\ ~HasItems(_items) /\ op' = "opened" /\ opened' = "false")
       => Count(emitted', ClosedEvent) = 0]_vars

C3_Witness ==
  /\ op = "opened" /\ opened = "false" /\ loading /\ ~HasItems(_items)
  /\ overlayLog = << <<"true", "false">> >>
  /\ emitted = <<>>

\* C4 as stated: when the item collection becomes empty while opened is true
\* and loading is false the overlay is closed by that update without a closed
\* event; the empty-items flag is false again once an update has returned,
\* and a later close that leaves a non-empty item collection always emits
\* the event.
C4_EmptyItemsSuppressOnce ==
  /\ [][(op' = "_items" /\ opened = "true" /\ ~loading /\ ~HasItems(_items'))
          => (~OverlayOpen' /\ Count(emitted', ClosedEvent) = 0)]_vars
  /\ [][(op' \in {"opened", "loading", "_items"} /\ Flushed /\ fault' = "")
          => ~__emptyItems']_vars
  /\ [][(Closes(overlayLog') > 0 /\ HasItems(_items'))
          => Count(emitted', ClosedEvent) = Closes(overlayLog')]_vars

\* C5 as stated: every closed-to-open transition of the overlay emits exactly
\* one opened event in the same step, and the overlay of the initialised
\* dropdown opens exactly when opened and (items non-empty or loading)
\* becomes true.
C5_OpenedEventPerOpening ==
  [][/\ Count(emitted', OpenedEvent) = Opens(overlayLog')
     /\ (phase' # "constructed") =>
          ((Opens(overlayLog') > 0) <=>
             (ShouldBeOpen' /\ (~ShouldBeOpen \/ phase = "constructed")))]_vars

\* C6: the events the dropdown re-dispatches are exactly the scroller's
\* selection-changed and index-requested events, one for one, with the same
\* type and detail and in the same order; no other scroller event is
\* forwarded.
C6_ForwardedVerbatim ==
  forwarded = SelectSeq(scrollerEvents,
                        LAMBDA e : e.type \in {"selection-changed", "index-requested"})

C6_Witness ==
  /\ Len(scrollerEvents) = 3 /\ Len(forwarded) = 2
  /\ scrollerEvents[2].type = "scroll"
  /\ forwarded[1] = [type |-> "index-requested", detail |-> "detail-2"]
  /\ forwarded[2] = [type |-> "selection-changed", detail |-> "detail-1"]

LabelPathUsed(call) == IF Truthy(call.path) THEN call.path ELSE _itemLabelPath
StringOf(item) ==
  IF item.t \in {"undefined", "null"} THEN Str("") ELSE Str(ToStringJS(item))

\* C8 as stated: getItemLabel returns the value at the label path (the path
\* argument when one is given, else _itemLabelPath) unless that value is
\* undefined or null, and otherwise the item converted to a string (nothing
\* for null and undefined).
C8_LabelOrStringCoercion ==
  labelCall # NoLabelCall =>
    LET found == Get(LabelPathUsed(labelCall).v, labelCall.item)
    IN labelCall.result =
         IF found.t \notin {"undefined", "null"} THEN found ELSE StringOf(labelCall.item)

\* C9 as stated: with the scroller absent, scrolling an index into view
\* changes nothing and opening the overlay raises no fault; with the position
\* target absent nothing recomputes the overlay width.
C9_AbsentIsNoOp ==
  [][/\ (_scroller = Undef /\ op' \in {"_scrollIntoView", "adjustScrollPosition"})
          => (scrolledTo' = <<>> /\ scroller' = scroller /\ fault' = "")
     /\ (positionTarget' = Undef)
          => (setWidthCalls' = 0 /\ overlayStyle' = overlayStyle)
     /\ (_scroller = Undef /\ Opens(overlayLog') > 0)
          => fault' = ""]_vars

C12_DisconnectCloses ==
  [][op' = "disconnectedCallback" =>
       /\ ~OverlayOpen'
       /\ <<opened', loading', _items'>> = <<opened, loading, _items>>
       /\ Count(emitted', ClosedEvent) = (IF OverlayOpen THEN 1 ELSE 0)
       /\ Count(emitted', OpenedEvent) = 0]_vars

\* C13: once the scroller exists, in every state (so after every change of
\* opened, loading, the item collection or the focused index) the scroller's
\* items are the dropdown's item collection when opened is true and the empty
\* list otherwise, and the scroller's opened, loading and focusedIndex equal
\* the dropdown's.
C13_ScrollerMirrorsDropdown ==
  _scroller # Undef =>
    /\ scroller.items = (IF opened = "true" THEN _items ELSE <<>>)
    /\ scroller.opened = opened
    /\ scroller.loading = loading
    /\ scroller.focusedIndex = _focusedIndex

C13_Witness ==
  /\ _scroller # Undef /\ op = "opened" /\ opened = "false"
  /\ Len(_items) = MaxItems /\ _items # UnsetItems /\ loading /\ _focusedIndex = 0
  /\ scroller.items = <<>> /\ scroller.opened = "false" /\ scroller.loading
  /\ scroller.focusedIndex = 0

\* the element of an array at an index; undefined beyond its end
ElementAt(items, index) ==
  IF items # UnsetItems /\ index + 1 \in DOMAIN items THEN items[index + 1] ELSE Undef

\* C14 as stated: once the element is ready, in every state focusedItem is
\* undefined when the focused index is -1 and is the element of the current
\* item collection at the focused index when the index is 0 or greater, also
\* after the item collection was replaced.
C14_FocusedItemIsItemAtIndex ==
  phase = "ready" =>
    focusedItem = (IF _focusedIndex = -1 THEN Undef ELSE ElementAt(_items, _focusedIndex))

\* the width recomputations a step owes to each of its causes
ByResize == IF op' = "notifyResize" /\ positionTarget # Undef /\ opened = "true" THEN 1 ELSE 0
ByTarget ==
  IF \/ op' = "positionTarget" /\ Flushed /\ positionTarget' # Undef
     \/ op' = "ready" /\ positionTarget # Undef
    THEN 1 ELSE 0
ByOpening == Opens(overlayLog')

\* C15 as stated: a resize notification recomputes the overlay width exactly
\* once when a position target is set and opened is true and leaves the width
\* properties unchanged otherwise; setting or changing the position target to
\* an element recomputes it once, and every opening of the overlay recomputes
\* it once (stated for the steps that raise no fault).
C15_RecomputedOncePerCause ==
  [][fault' = "" =>
       /\ setWidthCalls' = ByResize + ByTarget + ByOpening
       /\ (op' = "notifyResize" /\ ByResize = 0) => overlayStyle' = overlayStyle]_vars

\* C15 amended: as stated, but an opening of the overlay recomputes the width
\* once only when a position target is set; without one it recomputes nothing.
C15_RecomputedOncePerCauseWithTarget ==
  [][/\ setWidthCalls' =
          ByResize + ByTarget + (IF positionTarget' # Undef THEN ByOpening ELSE 0)
     /\ (op' = "notifyResize" /\ ByResize = 0) => overlayStyle' = overlayStyle
     /\ setWidthCalls' = 0 => overlayStyle' = overlayStyle]_vars

C15_Witness ==
  /\ phase = "ready" /\ op = "positionTarget" /\ positionTarget = "field"
  /\ setWidthCalls = 1 /\ opened = "true" /\ OverlayOpen
  /\ overlayStyle[DefaultWidthProp(HostTagName)] = "320px"

\* the indexes of the items whose label equals the given label when both are
\* converted to lower-cased strings
MatchingIndexes(call) ==
  {i \in 0..(Len(call.items.v) - 1) :
     ToLowerCase(ToStringJS(getItemLabel(call.items.v[i + 1], JsUndefined)))
       = ToLowerCase(ToStringJS(call.label))}

LabelAbsentOrEmpty(label) == label \in {JsUndefined, JsNull, Str("")}

\* C16 as stated: indexOfLabel returns the smallest index whose item label
\* equals the given label as lower-cased strings, and -1 when no item
\* matches, when the item collection is unset or when the label is empty or
\* absent; the result is -1 or an index of the collection.
C16_SmallestMatchingIndex ==
  indexCall # NoIndexCall =>
    /\ indexCall.result =
         IF \/ indexCall.items = NoArr
            \/ LabelAbsentOrEmpty(indexCall.label)
            \/ MatchingIndexes(indexCall) = {}
           THEN -1
           ELSE CHOOSE i \in MatchingIndexes(indexCall) :
                  \A j \in MatchingIndexes(indexCall) : i <= j
    /\ indexCall.result \in (-1)..(Len(indexCall.items.v) - 1)

\* C17 as stated: a height update clears the height of the textarea only when
\* the value is shorter than the value the previous update saw (not on the
\* first update, not when the value grows), and after every update the
\* recorded length is the length of the current value.
C17_ClearedOnlyWhenShorter ==
  heightUpdate.ran =>
    /\ heightUpdate.cleared =>
         (heightUpdate.previous # NoLength /\ heightUpdate.length < heightUpdate.previous)
    /\ _oldValueLength = ValueLength(value)

\* C18 as stated: over any sequence of property changes, overlay-initiated
\* closes and disconnects a closed event is dispatched only by a step in
\* which the overlay goes from open to closed, and the last opened or closed
\* event before every closed event is an opened event: no closed event comes
\* before the first opened event and no two closed events follow each other
\* without an opened event between them, so that the closed events never
\* outnumber the opened events.
C18_ClosedOnlyAfterOpened ==
  [][/\ Count(emitted', ClosedEvent) <= Closes(overlayLog')
     /\ \A i \in DOMAIN emitted' :
          emitted'[i] = ClosedEvent =>
            LastLifecycle(lastLifecycle, SubSeq(emitted', 1, i - 1)) = OpenedEvent]_vars
====
